---------------------------- MODULE Spec2Model ----------------------------
(***************************************************************************)
(* ShaggyDog: the progressive image-transformation pipeline                *)
(* (generate_transformation.py) and the web handler that drives it         *)
(* (app.py: generate).                                                     *)
(*                                                                         *)
(* Text is a sequence of one-character strings.  Base64 text is a sequence *)
(* of character codes: 0..63 the alphabet, PadChar '=', JunkChar an ASCII  *)
(* character outside the alphabet, NonAscii a character str.encode('ascii')*)
(* rejects.  None (Python's None) is the one-element sequence <<-1>>.      *)
(* File-system paths are strings, joined with "/".                         *)
(***************************************************************************)
EXTENDS Integers, Sequences, FiniteSets, TLC

(***************************************************************************)
(* Bounds of the model.                                                    *)
(***************************************************************************)
\* longest byte string whose encoding the endpoint returns as a payload
MaxBytes == 2
\* latest clock reading (seconds) a request can observe
MaxClock == 1
\* longest generated image, in bytes, the save step is given
MaxFileBytes == 3
\* longest description, in characters, extract_dog_breed is given on its own
MaxText == 5
\* most segments in a path asked of serve_image or serve_upload
MaxSegs == 4

(***************************************************************************)
(* base64 (generate_transformation.py:75, :191)                            *)
(***************************************************************************)
PadChar == 64
JunkChar == 65
NonAscii == 66
None == <<-1>>
EmptyStr == <<>>

\* base64.b64encode(image_data).decode('utf-8')
RECURSIVE B64Encode(_)
B64Encode(b) ==
    IF Len(b) = 0 THEN <<>>
    ELSE IF Len(b) = 1 THEN
        << b[1] \div 4, (b[1] % 4) * 16, PadChar, PadChar >>
    ELSE IF Len(b) = 2 THEN
        << b[1] \div 4, (b[1] % 4) * 16 + (b[2] \div 16), (b[2] % 16) * 4, PadChar >>
    ELSE
        << b[1] \div 4, (b[1] % 4) * 16 + (b[2] \div 16),
           (b[2] % 16) * 4 + (b[3] \div 64), b[3] % 64 >>
        \o B64Encode(SubSeq(b, 4, Len(b)))

\* binascii.a2b_base64 in its non-strict mode, the loop over the characters:
\* i the position, quad the position in the quad, left the bits left over,
\* pads the pad characters seen in a row, out the bytes so far.
RECURSIVE A2B(_, _, _, _, _, _)
A2B(s, i, quad, left, pads, out) ==
    IF i > Len(s) THEN
        IF quad # 0 THEN [ok |-> FALSE, bytes |-> <<>>] ELSE [ok |-> TRUE, bytes |-> out]
    ELSE IF s[i] = PadChar THEN
        IF quad >= 2 /\ quad + pads + 1 >= 4
        THEN [ok |-> TRUE, bytes |-> out]
        ELSE A2B(s, i + 1, quad, left, IF quad >= 2 THEN pads + 1 ELSE pads, out)
    ELSE IF s[i] >= 64 THEN A2B(s, i + 1, quad, left, pads, out)
    ELSE IF quad = 0 THEN A2B(s, i + 1, 1, s[i], 0, out)
    ELSE IF quad = 1 THEN
        A2B(s, i + 1, 2, s[i] % 16, 0, Append(out, (left * 4 + (s[i] \div 16)) % 256))
    ELSE IF quad = 2 THEN
        A2B(s, i + 1, 3, s[i] % 4, 0, Append(out, (left * 16 + (s[i] \div 4)) % 256))
    ELSE A2B(s, i + 1, 0, 0, 0, Append(out, (left * 64 + s[i]) % 256))

\* A decoder that drops the bytes of a padded last quad.
B64DecodeDropsTail(p) ==
    IF p = None THEN [ok |-> FALSE, type |-> "TypeError", bytes |-> <<>>]
    ELSE IF \E i \in 1..Len(p) : p[i] = NonAscii
        THEN [ok |-> FALSE, type |-> "ValueError", bytes |-> <<>>]
    ELSE LET r == A2B(p, 1, 0, 0, 0, <<>>)
         IN  IF r.ok
             THEN [ok |-> TRUE, type |-> "",
                   bytes |-> SubSeq(r.bytes, 1, 3 * (Len(r.bytes) \div 3))]
             ELSE [ok |-> FALSE, type |-> "binascii.Error", bytes |-> <<>>]

\* base64.b64decode(image_base64): None is no bytes-like object (TypeError), a
\* non-ASCII string is refused (ValueError), otherwise a2b_base64 decides.
B64Decode(p) ==
    IF p = None THEN [ok |-> FALSE, type |-> "TypeError", bytes |-> <<>>]
    ELSE IF \E i \in 1..Len(p) : p[i] = NonAscii
        THEN [ok |-> FALSE, type |-> "ValueError", bytes |-> <<>>]
    ELSE LET r == A2B(p, 1, 0, 0, 0, <<>>)
         IN  IF r.ok THEN [ok |-> TRUE, type |-> "", bytes |-> r.bytes]
             ELSE [ok |-> FALSE, type |-> "binascii.Error", bytes |-> <<>>]

(***************************************************************************)
(* extract_dog_breed (generate_transformation.py:45-57)                    *)
(***************************************************************************)
Whitespace == {" ", "\t", "\n"}
UpperChars == {"A", "B", "C", "D", "E", "F", "G", "H", "I", "J", "K", "L", "M",
               "N", "O", "P", "Q", "R", "S", "T", "U", "V", "W", "X", "Y", "Z"}

\* str.split(): the maximal runs of non-whitespace characters, in order.
\* cur is the run being read.
RECURSIVE SplitFrom(_, _, _)
SplitFrom(s, i, cur) ==
    IF i > Len(s) THEN (IF cur = <<>> THEN <<>> ELSE <<cur>>)
    ELSE IF s[i] \in Whitespace
        THEN (IF cur = <<>> THEN <<>> ELSE <<cur>>) \o SplitFrom(s, i + 1, <<>>)
        ELSE SplitFrom(s, i + 1, Append(cur, s[i]))

Split(s) == SplitFrom(s, 1, <<>>)

\* No character counts as uppercase.
IsUpperNever(c) == FALSE

\* words[1][0].isupper()
IsUpper(c) == c \in UpperChars

DogLabel == <<"d", "o", "g">>

\* The first two tokens whenever there are two.
extract_dog_breed_two_tokens(breed_description) ==
    LET words == Split(breed_description)
    IN  IF Len(words) >= 2
        THEN words[1] \o <<" ">> \o words[2]
        ELSE IF words # <<>> THEN words[1] ELSE DogLabel

\* No fallback label for a text without a token.
extract_dog_breed_no_fallback(breed_description) ==
    LET words == Split(breed_description)
    IN  IF Len(words) >= 2 /\ (IsUpper(words[2][1]) \/ Len(words) = 2)
        THEN words[1] \o <<" ">> \o words[2]
        ELSE IF words # <<>> THEN words[1] ELSE <<>>

extract_dog_breed(breed_description) ==
    LET words == Split(breed_description)
    IN  IF Len(words) >= 2 /\ (IsUpper(words[2][1]) \/ Len(words) = 2)
        THEN words[1] \o <<" ">> \o words[2]
        ELSE IF words # <<>> THEN words[1] ELSE DogLabel


(***************************************************************************)
(* Values                                                                  *)
(***************************************************************************)
Req == {1, 2}
UserIds == {1, 2}
NoId == 0
NoDir == ""
NoExc == [type |-> "", msg |-> ""]
NoFiles == [p \in {} |-> <<>>]
\* serve_image / serve_upload have not answered
NoAnswer == [route |-> "", parts |-> <<>>, status |-> 0, file |-> ""]

\* The byte strings whose encodings the endpoint returns as payloads.
ByteSeqs == UNION {[1..n -> {77}] : n \in 0..MaxBytes}
ValidPayloads == {B64Encode(b) : b \in ByteSeqs \ {<<>>}}
\* "T" alone (one data character), and a string with a non-ASCII character
InvalidPayloads == {<<19>>, <<19, NonAscii>>}
Payloads == ValidPayloads \cup InvalidPayloads \cup {None, EmptyStr}

\* Output items of a response: the attributes an item has, its type, its result.
ImageItem(p) == [attrs |-> {"type", "result"}, type |-> "image_generation_call", result |-> p]
ImageItemNoResult == [attrs |-> {"type"}, type |-> "image_generation_call", result |-> None]
MessageItem == [attrs |-> {"type"}, type |-> "message", result |-> None]
OtherItem == [attrs |-> {"type", "result"}, type |-> "other_call", result |-> <<19, 19, 19, 19>>]
UntypedItem == [attrs |-> {"result"}, type |-> "", result |-> <<19, 19, 19, 19>>]
Items == {ImageItem(p) : p \in Payloads}
         \cup {ImageItemNoResult, MessageItem, OtherItem, UntypedItem}
\* A response's output: no item, one item, or any item followed by a message, by an
\* image without a result value or by an image.
Outputs == {<<>>} \cup {<<a>> : a \in Items}
           \cup {<<a, b>> : a \in Items,
                            b \in {MessageItem, ImageItem(None), ImageItem(B64Encode(<<77>>))}}

RemoteErrors == {[type |-> "APIConnectionError", msg |-> "Connection error."],
                 [type |-> "AuthenticationError", msg |-> "Incorrect API key provided"]}

\* What a remote call comes back with: an error raised by the client, or a response.
StageOutcomes == {[error |-> e, output |-> <<>>] : e \in RemoteErrors}
                 \cup {[error |-> NoExc, output |-> o] : o \in Outputs}

\* "Beagle with floppy ears"
BeagleText == <<"B", "e", "a", "g", "l", "e", " ", "w", "i", "t", "h", " ",
                "f", "l", "o", "p", "p", "y", " ", "e", "a", "r", "s">>

\* The texts the classification call answers with.
Descriptions == { <<>>, <<" ">>, <<"P", "u", "g">>,
                  <<"L", "a", "b", " ", "M", "i", "x", ",", " ", "o", "k">>,
                  <<"P", "u", "g", " ", "w", "i", "t", "h", "\n", "x">>,
                  BeagleText }
ClassifyOutcomes == {[error |-> e, text |-> <<>>] : e \in RemoteErrors}
                    \cup {[error |-> NoExc, text |-> d] : d \in Descriptions}

\* The stage's file name (generate_transformation.py:113, :138, :179).
StageFile(n) == IF n = 1 THEN "image1_transition.png"
                ELSE IF n = 2 THEN "image2_transition.png"
                ELSE "image3_final_dog.png"

\* os.path.join
Join(dir, name) == dir \o "/" \o name

\* The source image of the command line (generate_transformation.py:241) and its bytes.
CliImage == "Obama.jpeg"
SrcBytes == <<255, 216, 255>>

(***************************************************************************)
(* State                                                                   *)
(***************************************************************************)
VARIABLES
    pc,                 \* pc[r]: where request (run) r stands
    caller,             \* caller[r]: "web" (app.generate), "main" (main), "lib" (a direct call)
    user,               \* current_user.id
    upload,             \* request.files['file']: [present, filename, data]
    image_path,         \* generate_progressive_images' image_path / generate's filepath
    output_dir,         \* output_dir (NoDir: None)
    dog_breed,          \* the breed label
    base64_image,       \* the encoded source image
    resp_id,            \* resp_id[r][n]: responseN.id
    generated_images,   \* the list of (filename, payload)
    saved_paths,        \* the list of (filepath, payload)
    ret,                \* what generate_progressive_images returned
    exc,                \* the exception that left the pipeline (NoExc: none)
    flashed,            \* the messages flashed to the user
    calls,              \* every remote call issued, in order (history)
    nextId,             \* the identifier the endpoint gives its next response
    fs,                 \* the files: path -> bytes
    dirs,               \* the directories that exist
    db,                 \* the committed GeneratedImage records
    k,                  \* how many of the generated images the save loop has done
    fs0,                \* the files as they were when the run began (history)
    clock,              \* the last reading of datetime.now(), in seconds
    breed_description,  \* the text analyze_dog_breed returned (None: nothing yet)
    served              \* served[r]: what serve_image / serve_upload answered request r

vars == <<pc, caller, user, upload, image_path, output_dir, dog_breed, base64_image,
          resp_id, generated_images, saved_paths, ret, exc, flashed,
          calls, nextId, fs, dirs, db, k, fs0, clock, breed_description, served>>


(***************************************************************************)
(* Configuration of the web application (app.py:18-19, :30-32)             *)
(***************************************************************************)
UPLOAD_FOLDER == "uploads"
GENERATED_IMAGES_FOLDER == "static/generated_images"

\* The file names a browser may send, and what the handler makes of them.
UploadNames == {"", "me.jpg", "my pic.PNG", "notes.txt"}
Uploads == {[present |-> FALSE, filename |-> "", data |-> <<>>]}
           \cup {[present |-> TRUE, filename |-> n, data |-> SrcBytes] : n \in UploadNames}
NoUpload == [present |-> FALSE, filename |-> "", data |-> <<>>]

\* file.filename.lower().endswith(('.png', '.jpg', '.jpeg', '.gif', '.webp'))
HasImageExt(name) == name \in {"me.jpg", "my pic.PNG"}

\* werkzeug's secure_filename: whitespace becomes an underscore
secure_filename(name) == IF name = "my pic.PNG" THEN "my_pic.PNG" ELSE name

\* datetime.now().strftime('%Y%m%d_%H%M%S') of the clock reading t
Timestamp(t) == "20250101_00000" \o ToString(t)

(***************************************************************************)
(* Exceptions                                                              *)
(***************************************************************************)
Exception(msg) == [type |-> "Exception", msg |-> msg]
FileNotFound == [type |-> "FileNotFoundError", msg |-> "[Errno 2] No such file or directory"]
PermissionDenied == [type |-> "PermissionError", msg |-> "[Errno 13] Permission denied"]
FileExists == [type |-> "FileExistsError", msg |-> "[Errno 17] File exists"]
NoSpace == [type |-> "OSError", msg |-> "[Errno 28] No space left on device"]
DbError == [type |-> "OperationalError", msg |-> "database is locked"]
DecodeError(type) ==
    [type |-> type,
     msg |-> IF type = "TypeError"
             THEN "argument should be a bytes-like object or ASCII string, not 'NoneType'"
             ELSE IF type = "ValueError"
             THEN "string argument should contain only ASCII characters"
             ELSE "Incorrect padding"]

\* raise Exception("Failed to generate image n")
FailedToGenerate(n) ==
    Exception(IF n = 1 THEN "Failed to generate image 1"
              ELSE IF n = 2 THEN "Failed to generate image 2"
              ELSE "Failed to generate image 3")

\* flash(message, category)
Flash(category, text, arg) == [category |-> category, text |-> text, arg |-> arg]

\* An exception leaves the pipeline and reaches its caller: app.generate's except
\* clause rolls the session back (nothing was committed) and flashes the message; main prints and re-raises;
\* a direct caller gets the exception.
Raise(r, e) ==
    /\ pc' = [pc EXCEPT ![r] = "done"]
    /\ exc' = [exc EXCEPT ![r] = e]
    /\ IF caller[r] = "web"
       THEN flashed' = [flashed EXCEPT ![r] =
                           Append(@, Flash("error", "Error generating images: " \o e.msg, <<>>))]
       ELSE UNCHANGED flashed

\* os.makedirs(d, exist_ok=True), d a directory directly under parent ("" for none):
\* what stands in its way, NoExc if nothing does.
MakedirsError(d, ioOk) ==
    IF d \in DOMAIN fs THEN FileExists
    ELSE IF d \notin dirs /\ ~ioOk THEN PermissionDenied
    ELSE NoExc


(***************************************************************************)
(* analyze_dog_breed (generate_transformation.py:13-43)                    *)
(***************************************************************************)
ClassifyRequest(r, b64) ==
    [req |-> r, api |-> "classify", stage |-> 0, model |-> "gpt-5-mini-2025-08-07",
     previous_response_id |-> NoId, prompt |-> [template |-> 0, breed |-> <<>>],
     image |-> b64, action |-> "", input_fidelity |-> "", response_id |-> NoId]

\* app.generate:175-181 and main:213-220: the classification, the extraction of the
\* label and, in the web handler, the user's directory of generated images.
\* outcome is what the classification call comes back with, ioOk whether the
\* file system lets the directory be made.
Analyze(r, outcome, ioOk) ==
    /\ pc[r] = "analyze"
    /\ LET dir == Join(GENERATED_IMAGES_FOLDER, ToString(user[r]))
           mkErr == MakedirsError(dir, ioOk)
       IN
       IF image_path[r] \notin DOMAIN fs
       THEN /\ Raise(r, Exception("Error analyzing dog breed: " \o FileNotFound.msg))
            /\ UNCHANGED <<calls, nextId, breed_description, dog_breed, output_dir, dirs>>
       ELSE /\ calls' = Append(calls,
                   [ClassifyRequest(r, B64Encode(fs[image_path[r]])) EXCEPT
                       !.response_id = IF outcome.error # NoExc THEN NoId ELSE nextId])
            /\ nextId' = IF outcome.error # NoExc THEN nextId ELSE nextId + 1
            /\ IF outcome.error # NoExc
               THEN /\ Raise(r, Exception("Error analyzing dog breed: " \o outcome.error.msg))
                    /\ UNCHANGED <<breed_description, dog_breed, output_dir, dirs>>
               ELSE /\ breed_description' = [breed_description EXCEPT ![r] = outcome.text]
                    /\ dog_breed' = [dog_breed EXCEPT ![r] = extract_dog_breed(outcome.text)]
                    /\ IF caller[r] = "web" /\ mkErr # NoExc
                       THEN /\ Raise(r, mkErr)
                            /\ UNCHANGED <<output_dir, dirs>>
                       ELSE /\ pc' = [pc EXCEPT ![r] = "stage1"]
                            /\ IF caller[r] = "web"
                               THEN /\ output_dir' = [output_dir EXCEPT ![r] = dir]
                                    /\ dirs' = dirs \cup {dir}
                               ELSE UNCHANGED <<output_dir, dirs>>
                            /\ UNCHANGED <<exc, flashed>>
    /\ UNCHANGED <<fs0, served, caller, user, upload, image_path, base64_image, resp_id,
                   generated_images, saved_paths, ret, fs, db, k, clock>>

(***************************************************************************)
(* analyze_dog_breed of the script analyze_dog_breed.py (:12-42)           *)
(***************************************************************************)
\* str(e) as text, for the errors of the model
MsgText(e) ==
    IF e.type = "APIConnectionError"
    THEN <<"C", "o", "n", "n", "e", "c", "t", "i", "o", "n", " ", "e", "r", "r", "o", "r", ".">>
    ELSE IF e.type = "AuthenticationError"
    THEN <<"I", "n", "c", "o", "r", "r", "e", "c", "t", " ", "A", "P", "I", " ", "k", "e", "y">>
    ELSE <<"[", "E", "r", "r", "n", "o", " ", "2", "]">>

\* f"Error: {str(e)}"
ErrorText(e) == <<"E", "r", "r", "o", "r", ":", " ">> \o MsgText(e)

\* The script's classifier, called by its __main__ (:44-55): whatever goes wrong,
\* the except clause returns the text "Error: ..." in place of the description.
AnalyzeScript(r, outcome) ==
    /\ pc[r] = "classify"
    /\ pc' = [pc EXCEPT ![r] = "done"]
    /\ IF image_path[r] \notin DOMAIN fs
       THEN /\ breed_description' = [breed_description EXCEPT ![r] = ErrorText(FileNotFound)]
            /\ UNCHANGED <<calls, nextId>>
       ELSE /\ calls' = Append(calls,
                   [ClassifyRequest(r, B64Encode(fs[image_path[r]])) EXCEPT
                       !.response_id = IF outcome.error # NoExc THEN NoId ELSE nextId])
            /\ nextId' = IF outcome.error # NoExc THEN nextId ELSE nextId + 1
            /\ breed_description' = [breed_description EXCEPT ![r] =
                   IF outcome.error # NoExc THEN ErrorText(outcome.error) ELSE outcome.text]
    /\ UNCHANGED <<fs0, served, caller, user, upload, image_path, output_dir, dog_breed,
                   base64_image, resp_id, generated_images, saved_paths, ret, exc, flashed,
                   fs, dirs, db, k, clock>>

(***************************************************************************)
(* generate_progressive_images (generate_transformation.py:59-201)         *)
(***************************************************************************)
\* The items the list comprehension keeps (:103-107, :128-132, :166-170).
Matches(item) ==
    /\ "type" \in item.attrs
    /\ item.type = "image_generation_call"
    /\ "result" \in item.attrs

\* imageN_data: the results of the items kept, in order.
ExtractImages(output) ==
    LET sel == SelectSeq(output, Matches)
    IN  [i \in 1..Len(sel) |-> sel[i].result]

\* Stage 3 chained to the response of stage 1 again.
PreviousResponseIdOfStage1(r, n) ==
    IF n = 1 THEN NoId ELSE resp_id[r][1]

\* previous_response_id of the call of stage n (:122, :148); stage 1 passes none.
PreviousResponseId(r, n) ==
    IF n = 1 THEN NoId ELSE resp_id[r][n - 1]

\* The label in the prompt of stage 1 only, "dog" in the later prompts.
StageRequestLabelInStage1Only(r, n, b64) ==
    [req |-> r, api |-> "generate", stage |-> n, model |-> "gpt-5",
     previous_response_id |-> PreviousResponseId(r, n),
     prompt |-> [template |-> n, breed |-> IF n = 1 THEN dog_breed[r] ELSE DogLabel],
     image |-> IF n = 1 THEN b64 ELSE None,
     action |-> IF n = 1 THEN "auto" ELSE "edit",
     input_fidelity |-> "high", response_id |-> NoId]

\* client.responses.create(...) of stage n (:84-97, :120-125, :146-151)
StageRequest(r, n, b64) ==
    [req |-> r, api |-> "generate", stage |-> n, model |-> "gpt-5",
     previous_response_id |-> PreviousResponseId(r, n),
     prompt |-> [template |-> n, breed |-> dog_breed[r]],
     image |-> IF n = 1 THEN b64 ELSE None,
     action |-> IF n = 1 THEN "auto" ELSE "edit",
     input_fidelity |-> "high", response_id |-> NoId]

\* The images saved as soon as a stage has its image.
AfterStageSavesAtOnce(r, n) ==
    IF output_dir[r] # NoDir THEN "makedirs" ELSE "save"

\* Where the function goes once stage n has its image.
AfterStage(r, n) ==
    IF n = 1 THEN "stage2"
    ELSE IF n = 2 THEN "stage3"
    ELSE IF output_dir[r] # NoDir THEN "makedirs" ELSE "save"

\* Every failure raised with the message of stage 1.
StageResultNamesStage1(r, n, outcome) ==
    LET data == ExtractImages(outcome.output)
    IN  IF outcome.error # NoExc
        THEN /\ Raise(r, outcome.error)
             /\ UNCHANGED <<resp_id, generated_images>>
        ELSE /\ resp_id' = [resp_id EXCEPT ![r] = Append(@, nextId)]
             /\ IF data = <<>>
                THEN /\ Raise(r, FailedToGenerate(1))
                     /\ UNCHANGED generated_images
                ELSE /\ generated_images' = [generated_images EXCEPT ![r] =
                                                Append(@, <<StageFile(n), data[1]>>)]
                     /\ pc' = [pc EXCEPT ![r] = AfterStage(r, n)]
                     /\ UNCHANGED <<exc, flashed>>

\* A call that raised is issued again.
StageResultRetries(r, n, outcome) ==
    LET data == ExtractImages(outcome.output)
    IN  IF outcome.error # NoExc
        THEN UNCHANGED <<pc, exc, flashed, resp_id, generated_images>>
        ELSE /\ resp_id' = [resp_id EXCEPT ![r] = Append(@, nextId)]
             /\ IF data = <<>>
                THEN /\ Raise(r, FailedToGenerate(n))
                     /\ UNCHANGED generated_images
                ELSE /\ generated_images' = [generated_images EXCEPT ![r] =
                                                Append(@, <<StageFile(n), data[1]>>)]
                     /\ pc' = [pc EXCEPT ![r] = AfterStage(r, n)]
                     /\ UNCHANGED <<exc, flashed>>

\* What the function does with the outcome of stage n's call: an error of the call
\* leaves the function, a response without an item kept is a failure of stage n,
\* otherwise the first result kept joins generated_images.
StageResult(r, n, outcome) ==
    LET data == ExtractImages(outcome.output)
    IN  IF outcome.error # NoExc
        THEN /\ Raise(r, outcome.error)
             /\ UNCHANGED <<resp_id, generated_images>>
        ELSE /\ resp_id' = [resp_id EXCEPT ![r] = Append(@, nextId)]
             /\ IF data = <<>>
                THEN /\ Raise(r, FailedToGenerate(n))
                     /\ UNCHANGED generated_images
                ELSE /\ generated_images' = [generated_images EXCEPT ![r] =
                                                Append(@, <<StageFile(n), data[1]>>)]
                     /\ pc' = [pc EXCEPT ![r] = AfterStage(r, n)]
                     /\ UNCHANGED <<exc, flashed>>

\* The call of stage n, issued and answered.
StageCall(r, n, outcome, b64) ==
    /\ calls' = Append(calls, [StageRequest(r, n, b64) EXCEPT
                                  !.response_id = IF outcome.error # NoExc THEN NoId ELSE nextId])
    /\ nextId' = IF outcome.error # NoExc THEN nextId ELSE nextId + 1
    /\ StageResult(r, n, outcome)

\* :72-113: the source image is read and encoded, then stage 1.
Stage1(r, outcome) ==
    /\ pc[r] = "stage1"
    /\ IF image_path[r] \notin DOMAIN fs
       THEN /\ Raise(r, FileNotFound)
            /\ UNCHANGED <<base64_image, calls, nextId, resp_id, generated_images>>
       ELSE /\ base64_image' = [base64_image EXCEPT ![r] = B64Encode(fs[image_path[r]])]
            /\ StageCall(r, 1, outcome, B64Encode(fs[image_path[r]]))
    /\ UNCHANGED <<fs0, served, breed_description, caller, user, upload, image_path, output_dir, dog_breed,
                   saved_paths, ret, fs, dirs, db, k, clock>>

\* :116-139
Stage2(r, outcome) ==
    /\ pc[r] = "stage2"
    /\ StageCall(r, 2, outcome, base64_image[r])
    /\ UNCHANGED <<fs0, served, breed_description, caller, user, upload, image_path, output_dir, dog_breed, base64_image,
                   saved_paths, ret, fs, dirs, db, k, clock>>

\* :141-180
Stage3(r, outcome) ==
    /\ pc[r] = "stage3"
    /\ StageCall(r, 3, outcome, base64_image[r])
    /\ UNCHANGED <<fs0, served, breed_description, caller, user, upload, image_path, output_dir, dog_breed, base64_image,
                   saved_paths, ret, fs, dirs, db, k, clock>>


\* :183-187: os.makedirs(output_dir, exist_ok=True); saved_paths = []
SaveMakedirs(r, ioOk) ==
    /\ pc[r] = "makedirs"
    /\ LET mkErr == MakedirsError(output_dir[r], ioOk)
       IN  IF mkErr # NoExc
           THEN /\ Raise(r, mkErr)
                /\ UNCHANGED <<dirs, saved_paths>>
           ELSE /\ dirs' = dirs \cup {output_dir[r]}
                /\ saved_paths' = [saved_paths EXCEPT ![r] = <<>>]
                /\ pc' = [pc EXCEPT ![r] = "save"]
                /\ UNCHANGED <<exc, flashed>>
    /\ UNCHANGED <<fs0, served, breed_description, caller, user, upload, image_path, output_dir, dog_breed, base64_image,
                   resp_id, generated_images, ret, calls, nextId, fs, db, k, clock>>

\* The path the save loop writes image i to (:189, :198).
SavePath(r, i) ==
    IF output_dir[r] # NoDir
    THEN Join(output_dir[r], generated_images[r][i][1])
    ELSE generated_images[r][i][1]

\* The bare file names returned whether or not a directory was given.
ReturnValueBareNames(r, paths) == generated_images[r]

\* What the function returns once the loop is through (:194, :201).
ReturnValue(r, paths) ==
    IF output_dir[r] # NoDir THEN paths ELSE generated_images[r]

\* A failure that removes the files the loop wrote before.
SaveFailureRollsBack(r, path, touched, content, e) ==
    /\ fs' = [p \in DOMAIN fs \ {SavePath(r, i) : i \in 1..k[r]} |-> fs[p]]
    /\ Raise(r, e)
    /\ UNCHANGED <<saved_paths, k, ret>>

\* A turn of the save loop fails with e, the file at path left holding content
\* (left as it was when touched is FALSE): the exception leaves the function, the
\* files written before stay, nothing is returned.
SaveFailure(r, path, touched, content, e) ==
    /\ fs' = IF touched THEN (path :> content) @@ fs ELSE fs
    /\ Raise(r, e)
    /\ UNCHANGED <<saved_paths, k, ret>>

\* One turn of the save loop (:188-193, :197-200): open(filepath, "wb"), then
\* f.write(base64.b64decode(image_base64)); after the last turn the function returns.
\* io: "open" the open fails, "write" the write fails having written kept bytes,
\* "ok" neither fails.
SaveFile(r, io, kept) ==
    /\ pc[r] = "save"
    /\ LET i == k[r] + 1
           path == SavePath(r, i)
           payload == generated_images[r][i][2]
           dec == B64Decode(payload)
           paths == IF output_dir[r] # NoDir
                    THEN Append(saved_paths[r], <<path, payload>>)
                    ELSE saved_paths[r]
       IN
       /\ io = "write" => dec.ok /\ kept < Len(dec.bytes)
       /\ io # "write" => kept = 0
       /\ IF io = "open" THEN SaveFailure(r, path, FALSE, <<>>, PermissionDenied)
          ELSE IF path \in dirs
          THEN SaveFailure(r, path, FALSE, <<>>,
                           [type |-> "IsADirectoryError", msg |-> "[Errno 21] Is a directory"])
          ELSE IF output_dir[r] # NoDir /\ output_dir[r] \notin dirs
          THEN SaveFailure(r, path, FALSE, <<>>, FileNotFound)
          ELSE IF ~dec.ok THEN SaveFailure(r, path, TRUE, <<>>, DecodeError(dec.type))
          ELSE IF io = "write"
          THEN SaveFailure(r, path, TRUE, SubSeq(dec.bytes, 1, kept), NoSpace)
          ELSE /\ fs' = (path :> dec.bytes) @@ fs
               /\ saved_paths' = [saved_paths EXCEPT ![r] = paths]
               /\ k' = [k EXCEPT ![r] = i]
               /\ IF i = Len(generated_images[r])
                  THEN /\ ret' = [ret EXCEPT ![r] = ReturnValue(r, paths)]
                       /\ pc' = [pc EXCEPT ![r] = IF caller[r] = "web" THEN "commit" ELSE "done"]
                  ELSE /\ pc' = pc
                       /\ ret' = ret
               /\ UNCHANGED <<exc, flashed>>
    /\ UNCHANGED <<fs0, served, breed_description, caller, user, upload, image_path, output_dir, dog_breed, base64_image,
                   resp_id, generated_images, calls, nextId, dirs, db, clock>>

(***************************************************************************)
(* app.generate (app.py:145-211)                                           *)
(***************************************************************************)
\* GeneratedImage(...) of :187-195
NewRecord(r) ==
    [id |-> Cardinality(db) + 1, req |-> r, user_id |-> user[r],
     original_filename |-> upload[r].filename,
     original_image_path |-> image_path[r], dog_breed |-> dog_breed[r],
     image1_path |-> ret[r][1][1], image2_path |-> ret[r][2][1],
     image3_path |-> ret[r][3][1]]

\* :148-173: the checks of the request, then the upload is stored under the user's
\* upload directory with the clock reading before its name.
Upload(r, file, now, ioOk, saveOk) ==
    /\ pc[r] = "request"
    /\ now >= clock
    /\ clock' = now
    /\ upload' = [upload EXCEPT ![r] = file]
    /\ LET dir == Join(UPLOAD_FOLDER, ToString(user[r]))
           filepath == Join(dir, Timestamp(now) \o "_" \o secure_filename(file.filename))
           mkErr == MakedirsError(dir, ioOk)
           refuse(text) ==
               /\ flashed' = [flashed EXCEPT ![r] = Append(@, Flash("error", text, <<>>))]
               /\ pc' = [pc EXCEPT ![r] = "done"]
               /\ UNCHANGED <<exc, dirs, fs, image_path>>
       IN
       IF ~file.present THEN refuse("No file uploaded")
       ELSE IF file.filename = "" THEN refuse("No file selected")
       ELSE IF ~HasImageExt(file.filename)
       THEN refuse("Invalid file type. Please upload an image file (PNG, JPG, JPEG, GIF, or WEBP).")
       ELSE IF mkErr # NoExc
       THEN /\ Raise(r, mkErr)
            /\ UNCHANGED <<dirs, fs, image_path>>
       ELSE IF ~saveOk
       THEN /\ dirs' = dirs \cup {dir}
            /\ Raise(r, NoSpace)
            /\ UNCHANGED <<fs, image_path>>
       ELSE /\ dirs' = dirs \cup {dir}
            /\ fs' = (filepath :> file.data) @@ fs
            /\ image_path' = [image_path EXCEPT ![r] = filepath]
            /\ pc' = [pc EXCEPT ![r] = "analyze"]
            /\ UNCHANGED <<exc, flashed>>
    /\ UNCHANGED <<fs0, served, breed_description, caller, user, output_dir, dog_breed, base64_image, resp_id,
                   generated_images, saved_paths, ret, calls, nextId, db, k>>

\* A failed commit that leaves the record behind.
CommitLeavesRecord(r, dbOk) ==
    /\ pc[r] = "commit"
    /\ db' = db \cup {NewRecord(r)}
    /\ IF ~dbOk
       THEN Raise(r, DbError)
       ELSE /\ flashed' = [flashed EXCEPT ![r] =
                   Append(@, Flash("success", "Images generated successfully! Detected breed: ",
                                   dog_breed[r]))]
            /\ pc' = [pc EXCEPT ![r] = "done"]
            /\ UNCHANGED exc
    /\ UNCHANGED <<fs0, served, breed_description, caller, user, upload, image_path, output_dir, dog_breed, base64_image,
                   resp_id, generated_images, saved_paths, ret, calls, nextId, fs, dirs,
                   k, clock>>

\* :186-200: the record is added to the session and committed.
Commit(r, dbOk) ==
    /\ pc[r] = "commit"
    /\ IF ~dbOk
       THEN /\ Raise(r, DbError)
            /\ UNCHANGED db
       ELSE /\ db' = db \cup {NewRecord(r)}
            /\ flashed' = [flashed EXCEPT ![r] =
                   Append(@, Flash("success", "Images generated successfully! Detected breed: ",
                                   dog_breed[r]))]
            /\ pc' = [pc EXCEPT ![r] = "done"]
            /\ UNCHANGED exc
    /\ UNCHANGED <<fs0, served, breed_description, caller, user, upload, image_path, output_dir, dog_breed, base64_image,
                   resp_id, generated_images, saved_paths, ret, calls, nextId, fs, dirs,
                   k, clock>>


(***************************************************************************)
(* The pipeline, one run                                                   *)
(***************************************************************************)
\* A run of request 1: the web handler for a logged-in user, the command line's
\* main, or a direct call of generate_progressive_images.
InitRun(c) ==
    /\ caller = [r \in Req |-> IF r = 1 THEN c ELSE ""]
    /\ pc = [r \in Req |-> IF r # 1 THEN "off"
                           ELSE IF c = "web" THEN "request"
                           ELSE IF c = "main" THEN "analyze"
                           ELSE IF c = "script" THEN "classify" ELSE "stage1"]
    /\ upload = [r \in Req |-> NoUpload]
    /\ base64_image = [r \in Req |-> <<>>]
    /\ resp_id = [r \in Req |-> <<>>]
    /\ generated_images = [r \in Req |-> <<>>]
    /\ saved_paths = [r \in Req |-> <<>>]
    /\ ret = [r \in Req |-> <<>>]
    /\ exc = [r \in Req |-> NoExc]
    /\ flashed = [r \in Req |-> <<>>]
    /\ k = [r \in Req |-> 0]
    /\ calls = <<>>
    /\ nextId = 1
    /\ db = {}
    /\ clock = 0
    /\ breed_description = [r \in Req |-> None]
    /\ served = [r \in Req |-> NoAnswer]

\* app.generate for a logged-in user: the folders of app.py:30-32 exist.
InitWeb ==
    /\ InitRun("web")
    /\ \E u \in UserIds : user = [r \in Req |-> IF r = 1 THEN u ELSE 0]
    /\ image_path = [r \in Req |-> ""]
    /\ output_dir = [r \in Req |-> NoDir]
    /\ dog_breed = [r \in Req |-> <<>>]
    /\ dirs = {UPLOAD_FOLDER, GENERATED_IMAGES_FOLDER, "static"}
    /\ fs = NoFiles

\* main(image_path) of the command line: no output directory.
InitMain ==
    /\ InitRun("main")
    /\ user = [r \in Req |-> 0]
    /\ image_path = [r \in Req |-> IF r = 1 THEN CliImage ELSE ""]
    /\ output_dir = [r \in Req |-> NoDir]
    /\ dog_breed = [r \in Req |-> <<>>]
    /\ dirs = {}
    /\ \E there \in BOOLEAN : fs = IF there THEN (CliImage :> SrcBytes) ELSE NoFiles

\* generate_progressive_images(image_path, dog_breed, output_dir) called directly:
\* without an output directory, or with "out", which is absent, there, there with
\* an older third image in it, or a file.  The source image is the command line's,
\* a file that is not there, or the first image of an earlier run.
InitLib ==
    /\ InitRun("lib")
    /\ user = [r \in Req |-> 0]
    /\ dog_breed = [r \in Req |-> IF r = 1 THEN DogLabel ELSE <<>>]
    /\ \E path \in {CliImage, "missing.jpg", StageFile(1)} :
       \E old \in {"nodir", "none", "dir", "stale", "file"} :
           LET src == IF path = StageFile(1) THEN (StageFile(1) :> SrcBytes)
                      ELSE (CliImage :> SrcBytes)
           IN  /\ image_path = [r \in Req |-> IF r = 1 THEN path ELSE ""]
               /\ output_dir = [r \in Req |-> IF r = 1 /\ old # "nodir" THEN "out" ELSE NoDir]
               /\ dirs = IF old \in {"dir", "stale"} THEN {"out"} ELSE {}
               /\ fs = IF old = "stale"
                       THEN src @@ (Join("out", StageFile(3)) :> <<1>>)
                       ELSE IF old = "file" THEN src @@ ("out" :> <<1>>)
                       ELSE src

\* The script analyze_dog_breed.py run from the command line.
InitScript ==
    /\ InitRun("script")
    /\ user = [r \in Req |-> 0]
    /\ image_path = [r \in Req |-> IF r = 1 THEN CliImage ELSE ""]
    /\ output_dir = [r \in Req |-> NoDir]
    /\ dog_breed = [r \in Req |-> <<>>]
    /\ dirs = {}
    /\ \E there \in BOOLEAN : fs = IF there THEN (CliImage :> SrcBytes) ELSE NoFiles

Init ==
    /\ InitWeb \/ InitMain \/ InitLib \/ InitScript
    /\ fs0 = fs

Next ==
    \E r \in Req :
        \/ \E file \in Uploads, now \in 0..MaxClock, ioOk \in BOOLEAN, saveOk \in BOOLEAN :
               Upload(r, file, now, ioOk, saveOk)
        \/ \E outcome \in ClassifyOutcomes, ioOk \in BOOLEAN : Analyze(r, outcome, ioOk)
        \/ \E outcome \in ClassifyOutcomes : AnalyzeScript(r, outcome)
        \/ \E outcome \in StageOutcomes : Stage1(r, outcome)
        \/ \E outcome \in StageOutcomes : Stage2(r, outcome)
        \/ \E outcome \in StageOutcomes : Stage3(r, outcome)
        \/ \E ioOk \in BOOLEAN : SaveMakedirs(r, ioOk)
        \/ \E io \in {"ok", "open", "write"}, kept \in 0..MaxBytes : SaveFile(r, io, kept)
        \/ \E dbOk \in BOOLEAN : Commit(r, dbOk)

Spec == Init /\ [][Next]_vars


(***************************************************************************)
(* The save step alone (generate_transformation.py:182-201)                *)
(***************************************************************************)
\* The byte strings of the generated images.
FileBytes == UNION {[1..n -> {0, 77, 255}] : n \in 0..MaxFileBytes}
\* Their encodings, and "TQ\n==": an encoding with a line break in it.
FilePayloads == {B64Encode(b) : b \in FileBytes}
                \cup {<<19, 16, JunkChar, PadChar, PadChar>>}

\* A direct call with the output directory "out", which does not exist, at the
\* point where the three stages have given their images: one of them any of
\* FilePayloads, the others the encoding of one byte.
PersistInit ==
    /\ caller = [r \in Req |-> IF r = 1 THEN "lib" ELSE ""]
    /\ pc = [r \in Req |-> IF r = 1 THEN "makedirs" ELSE "off"]
    /\ user = [r \in Req |-> 0]
    /\ upload = [r \in Req |-> NoUpload]
    /\ image_path = [r \in Req |-> IF r = 1 THEN CliImage ELSE ""]
    /\ output_dir = [r \in Req |-> IF r = 1 THEN "out" ELSE NoDir]
    /\ dog_breed = [r \in Req |-> IF r = 1 THEN DogLabel ELSE <<>>]
    /\ base64_image = [r \in Req |-> IF r = 1 THEN B64Encode(SrcBytes) ELSE <<>>]
    /\ resp_id = [r \in Req |-> IF r = 1 THEN <<1, 2, 3>> ELSE <<>>]
    /\ \E at \in 1..3, p \in FilePayloads :
           generated_images =
               [r \in Req |-> IF r = 1
                              THEN [i \in 1..3 |->
                                       <<StageFile(i), IF i = at THEN p ELSE B64Encode(<<77>>)>>]
                              ELSE <<>>]
    /\ saved_paths = [r \in Req |-> <<>>]
    /\ ret = [r \in Req |-> <<>>]
    /\ exc = [r \in Req |-> NoExc]
    /\ flashed = [r \in Req |-> <<>>]
    /\ k = [r \in Req |-> 0]
    /\ calls = [n \in 1..3 |->
                   [StageRequest(1, n, B64Encode(SrcBytes)) EXCEPT !.response_id = n]]
    /\ nextId = 4
    /\ db = {}
    /\ clock = 0
    /\ breed_description = [r \in Req |-> None]
    /\ served = [r \in Req |-> NoAnswer]
    /\ dirs = {}
    /\ fs = (CliImage :> SrcBytes)
    /\ fs0 = fs

PersistNext ==
    \E r \in Req :
        \/ \E ioOk \in BOOLEAN : SaveMakedirs(r, ioOk)
        \/ \E io \in {"ok", "open", "write"}, kept \in 0..MaxFileBytes : SaveFile(r, io, kept)

PersistSpec == PersistInit /\ [][PersistNext]_vars

(***************************************************************************)
(* Two requests to app.generate, handled at the same time (app.py:145-211) *)
(***************************************************************************)
\* The image the endpoint generates for its response id: no two responses carry
\* the same image.
WebImage(id) == B64Encode(<<id>>)

\* What the remote calls of the two requests come back with: the classification
\* with one description, a stage with its image or with an error of the client.
WebClassifyOutcome == [error |-> NoExc, text |-> <<"P", "u", "g">>]
WebStageOutcomes ==
    {[error |-> NoExc, output |-> <<ImageItem(WebImage(nextId))>>],
     [error |-> [type |-> "APIConnectionError", msg |-> "Connection error."], output |-> <<>>]}
WebUpload == [present |-> TRUE, filename |-> "me.jpg", data |-> SrcBytes]
\* The photos posted under that name: a JPEG, or a PNG misnamed.
WebUploads == {WebUpload, [WebUpload EXCEPT !.data = <<137, 80, 78>>]}

\* Request 1 is user 1's, request 2 the same user's or user 2's.
WebInit ==
    /\ caller = [r \in Req |-> "web"]
    /\ pc = [r \in Req |-> "request"]
    /\ \E u \in UserIds : user = [r \in Req |-> IF r = 1 THEN 1 ELSE u]
    /\ upload = [r \in Req |-> NoUpload]
    /\ image_path = [r \in Req |-> ""]
    /\ output_dir = [r \in Req |-> NoDir]
    /\ dog_breed = [r \in Req |-> <<>>]
    /\ breed_description = [r \in Req |-> None]
    /\ base64_image = [r \in Req |-> <<>>]
    /\ resp_id = [r \in Req |-> <<>>]
    /\ generated_images = [r \in Req |-> <<>>]
    /\ saved_paths = [r \in Req |-> <<>>]
    /\ ret = [r \in Req |-> <<>>]
    /\ exc = [r \in Req |-> NoExc]
    /\ flashed = [r \in Req |-> <<>>]
    /\ k = [r \in Req |-> 0]
    /\ served = [r \in Req |-> NoAnswer]
    /\ calls = <<>>
    /\ nextId = 1
    /\ db = {}
    /\ clock = 0
    /\ dirs = {UPLOAD_FOLDER, GENERATED_IMAGES_FOLDER, "static"}
    /\ fs = NoFiles
    /\ fs0 = fs

\* The steps of the two handlers, interleaved in any order.
WebNext ==
    \E r \in Req :
        \/ \E file \in WebUploads, now \in 0..MaxClock : Upload(r, file, now, TRUE, TRUE)
        \/ Analyze(r, WebClassifyOutcome, TRUE)
        \/ \E outcome \in WebStageOutcomes : Stage1(r, outcome)
        \/ \E outcome \in WebStageOutcomes : Stage2(r, outcome)
        \/ \E outcome \in WebStageOutcomes : Stage3(r, outcome)
        \/ SaveMakedirs(r, TRUE)
        \/ SaveFile(r, "ok", 0)
        \/ \E dbOk \in BOOLEAN : Commit(r, dbOk)

WebSpec == WebInit /\ [][WebNext]_vars

(***************************************************************************)
(* serve_image and serve_upload (app.py:213-251)                           *)
(***************************************************************************)
\* The name under which the upload "me.jpg" of clock reading 0 is stored.
StoredUpload == Timestamp(0) \o "_" \o "me.jpg"

\* The segments of the paths asked for, i.e. the elements of filename.split('/').
Segs == {"1", "2", "01", "x", "..", "", StageFile(1), StoredUpload}
Filenames == UNION {[1..n -> Segs] : n \in 1..MaxSegs}

\* parts[0].isdigit() and int(parts[0])
IsDigit(seg) == seg \in {"1", "2", "01"}
ToInt(seg) == IF seg = "2" THEN 2 ELSE 1

\* posixpath.normpath of a relative path, segment by segment: "" and "." are
\* dropped, ".." takes back the segment before it unless there is none or it is
\* ".." itself.  out holds the segments kept so far.
RECURSIVE NormFrom(_, _, _)
NormFrom(segs, i, out) ==
    IF i > Len(segs) THEN out
    ELSE IF segs[i] \in {"", "."} THEN NormFrom(segs, i + 1, out)
    ELSE IF segs[i] = ".." /\ out # <<>> /\ out[Len(out)] # ".."
        THEN NormFrom(segs, i + 1, SubSeq(out, 1, Len(out) - 1))
        ELSE NormFrom(segs, i + 1, Append(out, segs[i]))

\* posixpath.join(directory, segments...)
RECURSIVE JoinSegs(_, _)
JoinSegs(dir, segs) ==
    IF segs = <<>> THEN dir ELSE JoinSegs(Join(dir, segs[1]), SubSeq(segs, 2, Len(segs)))

\* werkzeug's safe_join(directory, '/'.join(rest)): "" when the path is absolute or
\* leads out of the directory, else the path joined.
SafeJoin(directory, rest) ==
    LET norm == NormFrom(rest, 1, <<>>)
    IN  IF Len(rest) >= 2 /\ rest[1] = "" THEN ""
        ELSE IF norm # <<>> /\ norm[1] = ".." THEN ""
        ELSE JoinSegs(directory, norm)

\* send_from_directory(directory, filepath): the file when safe_join gives a path
\* that is a file, else 404.
SendFromDirectory(route, parts, directory, rest) ==
    LET path == SafeJoin(directory, rest)
    IN  IF path # "" /\ path \in DOMAIN fs
        THEN [route |-> route, parts |-> parts, status |-> 200, file |-> path]
        ELSE [route |-> route, parts |-> parts, status |-> 404, file |-> ""]

\* No check of the user.
AccessDeniedNever(r, parts) == FALSE

\* user_id != current_user.id (:222, :242)
AccessDenied(r, parts) == ToInt(parts[1]) # user[r]

\* The body the two handlers share: folder is the configured folder.
Serve(r, route, folder, parts) ==
    /\ pc[r] = "serve"
    /\ pc' = [pc EXCEPT ![r] = "done"]
    /\ IF Len(parts) >= 2 /\ IsDigit(parts[1])
       THEN IF AccessDenied(r, parts)
            THEN /\ flashed' = [flashed EXCEPT ![r] =
                                    Append(@, Flash("error", "Access denied", <<>>))]
                 /\ served' = [served EXCEPT ![r] =
                        [route |-> route, parts |-> parts, status |-> 302, file |-> ""]]
            ELSE /\ served' = [served EXCEPT ![r] =
                        SendFromDirectory(route, parts, Join(folder, parts[1]),
                                          SubSeq(parts, 2, Len(parts)))]
                 /\ UNCHANGED flashed
       ELSE /\ flashed' = [flashed EXCEPT ![r] =
                               Append(@, Flash("error", "Invalid image path", <<>>))]
            /\ served' = [served EXCEPT ![r] =
                   [route |-> route, parts |-> parts, status |-> 302, file |-> ""]]
    /\ UNCHANGED <<fs0, breed_description, caller, user, upload, image_path, output_dir,
                   dog_breed, base64_image, resp_id, generated_images, saved_paths, ret,
                   exc, calls, nextId, fs, dirs, db, k, clock>>

\* GET /images/<path:filename>
serve_image(r, parts) == Serve(r, "images", GENERATED_IMAGES_FOLDER, parts)

\* GET /uploads/<path:filename>
serve_upload(r, parts) == Serve(r, "uploads", UPLOAD_FOLDER, parts)

\* The directory of user u under folder, and the files a generate request of u
\* has left there.
UserDir(folder, u) == Join(folder, ToString(u))
FilesOf(u) ==
    {Join(UserDir(GENERATED_IMAGES_FOLDER, u), StageFile(n)) : n \in 1..3}
    \cup {Join(UserDir(UPLOAD_FOLDER, u), StoredUpload)}

\* Both users have generated images once; one of them, logged in, asks for a path.
ServeInit ==
    /\ caller = [r \in Req |-> IF r = 1 THEN "web" ELSE ""]
    /\ pc = [r \in Req |-> IF r = 1 THEN "serve" ELSE "off"]
    /\ \E u \in UserIds : user = [r \in Req |-> IF r = 1 THEN u ELSE 0]
    /\ upload = [r \in Req |-> NoUpload]
    /\ image_path = [r \in Req |-> ""]
    /\ output_dir = [r \in Req |-> NoDir]
    /\ dog_breed = [r \in Req |-> <<>>]
    /\ breed_description = [r \in Req |-> None]
    /\ base64_image = [r \in Req |-> <<>>]
    /\ resp_id = [r \in Req |-> <<>>]
    /\ generated_images = [r \in Req |-> <<>>]
    /\ saved_paths = [r \in Req |-> <<>>]
    /\ ret = [r \in Req |-> <<>>]
    /\ exc = [r \in Req |-> NoExc]
    /\ flashed = [r \in Req |-> <<>>]
    /\ k = [r \in Req |-> 0]
    /\ served = [r \in Req |-> NoAnswer]
    /\ calls = <<>>
    /\ nextId = 1
    /\ db = {}
    /\ clock = 0
    /\ dirs = {UPLOAD_FOLDER, GENERATED_IMAGES_FOLDER, "static"}
              \cup {UserDir(f, u) : f \in {UPLOAD_FOLDER, GENERATED_IMAGES_FOLDER},
                                    u \in UserIds}
    /\ fs = [p \in UNION {FilesOf(u) : u \in UserIds} |-> <<77>>]
    /\ fs0 = fs

ServeNext ==
    \E r \in {q \in Req : pc[q] = "serve"} : \E parts \in Filenames :
        \/ serve_image(r, parts)
        \/ serve_upload(r, parts)

ServeSpec == ServeInit /\ [][ServeNext]_vars

(***************************************************************************)
(* extract_dog_breed alone (generate_transformation.py:45-57)              *)
(***************************************************************************)
\* The descriptions: every text of at most MaxText characters over a capital, a
\* small letter, a comma, a blank and a line break.
TextChars == {"A", "b", ",", " ", "\n"}
Texts == UNION {[1..n -> TextChars] : n \in 0..MaxText}

\* dog_breed = extract_dog_breed(breed_description)
Extract(r) ==
    /\ pc[r] = "extract"
    /\ dog_breed' = [dog_breed EXCEPT ![r] = extract_dog_breed(breed_description[r])]
    /\ pc' = [pc EXCEPT ![r] = "done"]
    /\ UNCHANGED <<fs0, served, breed_description, caller, user, upload, image_path,
                   output_dir, base64_image, resp_id, generated_images, saved_paths, ret,
                   exc, flashed, calls, nextId, fs, dirs, db, k, clock>>

\* A call of extract_dog_breed with any of the descriptions.
ExtractInit ==
    /\ caller = [r \in Req |-> IF r = 1 THEN "extract" ELSE ""]
    /\ pc = [r \in Req |-> IF r = 1 THEN "extract" ELSE "off"]
    /\ upload = [r \in Req |-> NoUpload]
    /\ base64_image = [r \in Req |-> <<>>]
    /\ resp_id = [r \in Req |-> <<>>]
    /\ generated_images = [r \in Req |-> <<>>]
    /\ saved_paths = [r \in Req |-> <<>>]
    /\ ret = [r \in Req |-> <<>>]
    /\ exc = [r \in Req |-> NoExc]
    /\ flashed = [r \in Req |-> <<>>]
    /\ k = [r \in Req |-> 0]
    /\ calls = <<>>
    /\ nextId = 1
    /\ db = {}
    /\ clock = 0
    /\ served = [r \in Req |-> NoAnswer]
    /\ \E d \in Texts : breed_description = [r \in Req |-> IF r = 1 THEN d ELSE None]
    /\ user = [r \in Req |-> 0]
    /\ image_path = [r \in Req |-> ""]
    /\ output_dir = [r \in Req |-> NoDir]
    /\ dog_breed = [r \in Req |-> <<>>]
    /\ dirs = {}
    /\ fs = NoFiles
    /\ fs0 = fs

ExtractNext == \E r \in Req : Extract(r)

ExtractSpec == ExtractInit /\ [][ExtractNext]_vars

(***************************************************************************)
(* Vocabulary of the properties                                            *)
(***************************************************************************)
\* The calls request r has issued, in order.
CallsOf(r) == SelectSeq(calls, LAMBDA c : c.req = r)

\* The call of stage n that request r issued, if any (n = 0: the classification).
StageCalls(r, n) == SelectSeq(CallsOf(r), LAMBDA c : c.stage = n)
Called(r, n) == StageCalls(r, n) # <<>>

\* A payload that is an image: neither None nor the empty string.
NonEmptyPayload(p) == p # None /\ p # EmptyStr

\* The item is of the image-generation kind.
ImageKind(item) == "type" \in item.attrs /\ item.type = "image_generation_call"

\* The item is of the image-generation kind and carries a non-empty result.
ValidImageItem(item) ==
    ImageKind(item) /\ "result" \in item.attrs /\ NonEmptyPayload(item.result)

\* The stage an error names: "Failed to generate image n" names n, any other
\* message names none (0).
StageNamed(e) ==
    IF e.msg = "Failed to generate image 1" THEN 1
    ELSE IF e.msg = "Failed to generate image 2" THEN 2
    ELSE IF e.msg = "Failed to generate image 3" THEN 3
    ELSE 0

\* The step is the call of stage n by request r, issued and answered with output o.
StageAnswered(r, n, o) ==
    LET outcome == [error |-> NoExc, output |-> o]
    IN  /\ Len(calls') = Len(calls) + 1
        /\ IF n = 1 THEN Stage1(r, outcome)
           ELSE IF n = 2 THEN Stage2(r, outcome)
           ELSE Stage3(r, outcome)

\* Request r ended with an error at stage n: its last call is that of stage n,
\* and the stages before n, no more, have their image.
FailedAtStage(r, n) ==
    /\ pc[r] = "done"
    /\ exc[r] # NoExc
    /\ CallsOf(r) # <<>>
    /\ CallsOf(r)[Len(CallsOf(r))].api = "generate"
    /\ CallsOf(r)[Len(CallsOf(r))].stage = n
    /\ Len(generated_images[r]) = n - 1

(***************************************************************************)
(* C1.  Stage 2 is called only after stage 1 gave a valid image payload    *)
(* (an image-generation result that is neither null nor empty), stage 3    *)
(* only after stage 2 did; after a failure at stage 1 neither stage 2 nor  *)
(* stage 3 is called, after a failure at stage 2 stage 3 is not.           *)
(***************************************************************************)
C1_ChainingOnValidPayload ==
    \A r \in Req :
        /\ \A n \in {2, 3} :
               Called(r, n) =>
                   /\ Len(generated_images[r]) >= n - 1
                   /\ NonEmptyPayload(generated_images[r][n - 1][2])
        /\ \A n \in {1, 2} :
               FailedAtStage(r, n) => \A m \in (n + 1)..3 : ~Called(r, m)

(***************************************************************************)
(* C2.  A response of stage n without any item of the image-generation     *)
(* kind makes the run fail with the error that names stage n, and no call  *)
(* of a later stage follows.                                               *)
(***************************************************************************)
NoImageKind(o) == \A i \in 1..Len(o) : ~ImageKind(o[i])

C2_NoImageItemFailsStage ==
    [][\A r \in Req :
          /\ \A n \in 1..3 : \A o \in Outputs :
                 (NoImageKind(o) /\ StageAnswered(r, n, o)) =>
                     /\ pc'[r] = "done"
                     /\ exc'[r].type = "Exception"
                     /\ StageNamed(exc'[r]) = n
                     /\ generated_images'[r] = generated_images[r]
          /\ \A n \in 1..3 :
                 FailedAtStage(r, n)' => \A m \in (n + 1)..3 : ~Called(r, m)'
          /\ \A n \in 1..3 :
                 FailedAtStage(r, n) => calls' = calls
      ]_vars

\* Stage 2 got a response and the run ended with the failure of stage 2.
C2_Witness ==
    /\ FailedAtStage(1, 2)
    /\ exc[1] = FailedToGenerate(2)
    /\ StageCalls(1, 2)[1].response_id # NoId

(***************************************************************************)
(* C3.  A response whose image-generation items all have a null or empty   *)
(* result counts as one without a valid item: the stage fails, no later    *)
(* stage is called and nothing of the response joins the manifest.         *)
(***************************************************************************)
NoValidImageItem(o) == \A i \in 1..Len(o) : ~ValidImageItem(o[i])

C3_EmptyResultFailsStage ==
    [][\A r \in Req : \A n \in 1..3 : \A o \in Outputs :
          (NoValidImageItem(o) /\ StageAnswered(r, n, o)) =>
              /\ pc'[r] = "done"
              /\ StageNamed(exc'[r]) = n
              /\ generated_images'[r] = generated_images[r]
      ]_vars

(***************************************************************************)
(* C4.  Whatever makes stage n fail, the call raising or the response      *)
(* lacking an image, the error that reaches the caller names stage n.      *)
(***************************************************************************)
C4_ErrorNamesStage ==
    \A r \in Req : \A n \in 1..3 :
        FailedAtStage(r, n) => StageNamed(exc[r]) = n


(***************************************************************************)
(* C5.  Stage 1 is called with the source image and no continuation        *)
(* reference; stage 2 with the identifier of stage 1's response, stage 3   *)
(* with that of stage 2's, both with a prompt alone and the edit action;   *)
(* no identifier is given to more than one call.                           *)
(***************************************************************************)
GenerateCalls(r) == SelectSeq(CallsOf(r), LAMBDA c : c.api = "generate")

C5_ContinuationChain ==
    /\ \A r \in Req :
           LET cs == GenerateCalls(r)
           IN  \A i \in 1..Len(cs) :
                   /\ cs[i].stage = i
                   /\ cs[i].prompt.template = i
                   /\ i = 1 => /\ cs[i].previous_response_id = NoId
                               /\ cs[i].image = B64Encode(SrcBytes)
                   /\ i > 1 => /\ cs[i].previous_response_id # NoId
                               /\ cs[i].previous_response_id = cs[i - 1].response_id
                               /\ cs[i].image = None
                               /\ cs[i].action = "edit"
    /\ \A i \in 1..Len(calls) : \A j \in 1..Len(calls) :
           (i # j /\ calls[i].previous_response_id # NoId) =>
               calls[i].previous_response_id # calls[j].previous_response_id

\* All three stages were called.
C5_Witness == Len(GenerateCalls(1)) = 3

(***************************************************************************)
(* C6.  No remote call is retried: the classification and each stage are   *)
(* called at most once in a run, and in a run of the pipeline (the web     *)
(* handler, main, a direct call) a call that raised is the run's last      *)
(* call, its error raised to the caller.                                   *)
(***************************************************************************)
C6_NoRetry ==
    \A r \in Req :
        /\ \A n \in 0..3 : Len(StageCalls(r, n)) <= 1
        /\ \A i \in 1..Len(CallsOf(r)) :
               (CallsOf(r)[i].response_id = NoId /\ caller[r] # "script") =>
                   /\ i = Len(CallsOf(r))
                   /\ pc[r] = "done"
                   /\ exc[r] # NoExc

\* The call of stage 2 raised.
C6_Witness ==
    /\ Called(1, 2)
    /\ StageCalls(1, 2)[1].response_id = NoId
    /\ Called(1, 0)

(***************************************************************************)
(* C7.  With an output directory, a run whose three stages succeed returns *)
(* three pairs in stage order: the directory joined with the stage's file  *)
(* name, and the payload taken from the stage's response, unchanged.       *)
(***************************************************************************)
\* The result of the first item of o that is of the image-generation kind and has
\* a result.
FirstImageResult(o) ==
    LET has(j) == ImageKind(o[j]) /\ "result" \in o[j].attrs
        first == CHOOSE j \in 1..Len(o) : has(j) /\ \A m \in 1..(j - 1) : ~has(m)
    IN  o[first].result

C7_ManifestInStageOrder ==
    [][\A r \in Req :
          /\ \A n \in 1..3 : \A o \in Outputs :
                 (StageAnswered(r, n, o) /\ pc'[r] # "done") =>
                     generated_images'[r] =
                         Append(generated_images[r], <<StageFile(n), FirstImageResult(o)>>)
          /\ Len(generated_images'[r]) >= Len(generated_images[r])
          /\ SubSeq(generated_images'[r], 1, Len(generated_images[r])) = generated_images[r]
          /\ (ret'[r] # <<>> /\ output_dir'[r] # NoDir) =>
                 /\ Len(generated_images'[r]) = 3
                 /\ ret'[r] = [i \in 1..3 |-> << Join(output_dir'[r], StageFile(i)),
                                                generated_images'[r][i][2] >>]
      ]_vars

\* A direct call with a directory has returned.
C7_Witness ==
    /\ pc[1] = "done"
    /\ output_dir[1] = "out"
    /\ Len(ret[1]) = 3
    /\ ret[1][1][2] # ret[1][2][2]

(***************************************************************************)
(* C8.  Given three generated images and an output directory that does not *)
(* exist, the save step makes the directory and writes three files; the    *)
(* file of a payload that encodes the bytes b holds exactly b.             *)
(***************************************************************************)
C8_PersistRoundTrip ==
    \A r \in Req :
        (pc[r] = "done" /\ exc[r] = NoExc) =>
            /\ output_dir[r] \in dirs
            /\ Len(ret[r]) = 3
            /\ \A i \in 1..3 :
                   /\ Join(output_dir[r], StageFile(i)) \in DOMAIN fs
                   /\ \A b \in FileBytes :
                          generated_images[r][i][2] = B64Encode(b) =>
                              fs[Join(output_dir[r], StageFile(i))] = b

\* The directory was made and the second file holds three bytes.
C8_Witness ==
    /\ pc[1] = "done"
    /\ exc[1] = NoExc
    /\ "out" \in dirs
    /\ fs[Join("out", StageFile(2))] = <<255, 0, 77>>
    /\ fs[Join("out", StageFile(1))] = <<77>>

(***************************************************************************)
(* C9.  When making the output directory or writing the k-th file fails,   *)
(* the failure is raised to the caller and nothing is returned; the files  *)
(* written before stay as written and the files after the k-th are not    *)
(* written.                                                                *)
(***************************************************************************)
\* The file at path is as it was when the run began.
Untouched(path) ==
    /\ path \in DOMAIN fs <=> path \in DOMAIN fs0
    /\ path \in DOMAIN fs => fs[path] = fs0[path]

C9_PersistFailure ==
    \A r \in Req :
        (pc[r] = "done" /\ Len(generated_images[r]) = 3 /\ k[r] < 3) =>
            /\ exc[r] # NoExc
            /\ ret[r] = <<>>
            /\ \A i \in 1..k[r] :
                   /\ SavePath(r, i) \in DOMAIN fs
                   /\ fs[SavePath(r, i)] = B64Decode(generated_images[r][i][2]).bytes
            /\ \A i \in (k[r] + 2)..3 : Untouched(SavePath(r, i))
            /\ exc[r] \in {FileExists, PermissionDenied} => Untouched(SavePath(r, k[r] + 1))

\* The second write failed: the first file stays, the older third file too.
C9_Witness ==
    /\ pc[1] = "done"
    /\ Len(generated_images[1]) = 3
    /\ k[1] = 1
    /\ exc[1] # NoExc
    /\ Join("out", StageFile(3)) \in DOMAIN fs
    /\ fs[Join("out", StageFile(1))] = <<77>>

(***************************************************************************)
(* C10.  In the web handler a GeneratedImage record is committed only      *)
(* after the classification, the three stages and the three file writes    *)
(* succeeded; when a step fails the request leaves no record and its error *)
(* message is flashed to the user.                                         *)
(***************************************************************************)
RecordsOf(r) == {rec \in db : rec.req = r}

C10_NoPartialRecord ==
    \A r \in Req :
        caller[r] = "web" =>
            /\ Cardinality(RecordsOf(r)) <= 1
            /\ \A rec \in RecordsOf(r) :
                   /\ pc[r] = "done"
                   /\ exc[r] = NoExc
                   /\ \A n \in 0..3 :
                          Called(r, n) /\ StageCalls(r, n)[1].response_id # NoId
                   /\ Len(generated_images[r]) = 3
                   /\ k[r] = 3
                   /\ \A i \in 1..3 : Join(output_dir[r], StageFile(i)) \in DOMAIN fs
                   /\ <<rec.image1_path, rec.image2_path, rec.image3_path>> =
                          [i \in 1..3 |-> Join(output_dir[r], StageFile(i))]
            /\ (pc[r] = "done" /\ exc[r] # NoExc) =>
                   /\ RecordsOf(r) = {}
                   /\ \E i \in 1..Len(flashed[r]) :
                          /\ flashed[r][i].category = "error"
                          /\ flashed[r][i].text = "Error generating images: " \o exc[r].msg

\* A web request whose third file could not be written: two files, no record.
C10_Witness ==
    /\ caller[1] = "web"
    /\ pc[1] = "done"
    /\ exc[1] # NoExc
    /\ k[1] = 2
    /\ db = {}

(***************************************************************************)
(* C11.  When the classification call fails, the classifier raises an      *)
(* error to its caller and returns no text: no description and no label    *)
(* come of it, stage 1 is not called, and the call is not issued again.    *)
(***************************************************************************)
\* The classification call of request r was issued and raised.
ClassificationFailed(r) ==
    /\ Called(r, 0)
    /\ StageCalls(r, 0)[1].response_id = NoId

C11_ClassifierRaises ==
    \A r \in Req :
        ClassificationFailed(r) =>
            /\ Len(StageCalls(r, 0)) = 1
            /\ pc[r] = "done"
            /\ exc[r] # NoExc
            /\ breed_description[r] = None
            /\ dog_breed[r] = <<>>
            /\ ~Called(r, 1)

(***************************************************************************)
(* C12.  For a description of two or more tokens whose second token begins *)
(* with a capital, or of exactly two tokens, extract_dog_breed returns the *)
(* first two tokens as they stand, punctuation included, joined by one     *)
(* blank.                                                                  *)
(***************************************************************************)
\* extract_dog_breed has returned to request r.
Extracted(r) == caller[r] = "extract" /\ pc[r] = "done"

C12_TwoTokenLabel ==
    \A r \in Req :
        Extracted(r) =>
            LET words == Split(breed_description[r])
            IN  (Len(words) >= 2 /\ (words[2][1] \in UpperChars \/ Len(words) = 2)) =>
                    dog_breed[r] = words[1] \o <<" ">> \o words[2]

\* Three tokens, the second a capital after a line break; and two tokens with a
\* comma, in another run.
C12_Witness ==
    /\ Extracted(1)
    /\ breed_description[1] = <<"b", ",", "\n", "A", " ">>
    /\ dog_breed[1] = <<"b", ",", " ", "A">>

(***************************************************************************)
(* C13.  For a description of three or more tokens whose second token does *)
(* not begin with a capital, extract_dog_breed returns the first token     *)
(* alone.                                                                  *)
(***************************************************************************)
C13_FirstTokenOnly ==
    \A r \in Req :
        Extracted(r) =>
            LET words == Split(breed_description[r])
            IN  (Len(words) >= 3 /\ words[2][1] \notin UpperChars) =>
                    dog_breed[r] = words[1]

\* "A, b b" cut to five characters: three tokens, the second a small letter.
C13_Witness ==
    /\ Extracted(1)
    /\ breed_description[1] = <<"A", " ", "b", " ", ",">>
    /\ dog_breed[1] = <<"A">>

(***************************************************************************)
(* C15.  For a description of one token extract_dog_breed returns the      *)
(* token; for one without a token (empty, or whitespace only) it returns   *)
(* "dog"; the label is never the empty string.                             *)
(***************************************************************************)
C15_LabelNeverEmpty ==
    \A r \in Req :
        Extracted(r) =>
            LET words == Split(breed_description[r])
            IN  /\ Len(words) = 1 => dog_breed[r] = words[1]
                /\ Len(words) = 0 => dog_breed[r] = <<"d", "o", "g">>
                /\ (\A i \in 1..Len(breed_description[r]) :
                        breed_description[r][i] \in {" ", "\n"}) => Len(words) = 0
                /\ dog_breed[r] # <<>>

\* Whitespace only.
C15_Witness ==
    /\ Extracted(1)
    /\ breed_description[1] = <<" ", "\n">>
    /\ dog_breed[1] = <<"d", "o", "g">>

(***************************************************************************)
(* C14.  When the classifier returns "Beagle with floppy ears", the        *)
(* extractor yields the label "Beagle" (four tokens, the second without a  *)
(* capital), and the prompts of all three stages carry that label.         *)
(***************************************************************************)
\* Request r is a run of the pipeline from the classification on.
EndToEnd(r) == caller[r] \in {"web", "main"}

\* The prompts of the stages request r has called all carry label.
PromptsCarry(r, label) ==
    \A i \in 1..Len(GenerateCalls(r)) : GenerateCalls(r)[i].prompt.breed = label

C14_BeagleLabel ==
    \A r \in Req :
        (EndToEnd(r) /\ breed_description[r] = BeagleText) =>
            /\ dog_breed[r] = <<"B", "e", "a", "g", "l", "e">>
            /\ PromptsCarry(r, <<"B", "e", "a", "g", "l", "e">>)

\* As stated: the label is "Beagle with".
C14_BeagleWithLabel ==
    \A r \in Req :
        (EndToEnd(r) /\ breed_description[r] = BeagleText) =>
            /\ dog_breed[r] = <<"B", "e", "a", "g", "l", "e", " ", "w", "i", "t", "h">>
            /\ PromptsCarry(r, <<"B", "e", "a", "g", "l", "e", " ", "w", "i", "t", "h">>)

\* The classifier answered with the text and all three stages were called.
C14_Witness ==
    /\ EndToEnd(1)
    /\ breed_description[1] = BeagleText
    /\ Len(GenerateCalls(1)) = 3

(***************************************************************************)
(* C17.  The pipeline only reads the source image: no step of              *)
(* analyze_dog_breed or generate_progressive_images, in a run that ends    *)
(* well or not, with or without an output directory, changes the file at   *)
(* image_path; no output file is written over it.                          *)
(***************************************************************************)
\* Request r is past the point where its source image is in place.
HasSource(r) == pc[r] \notin {"off", "request"} /\ image_path[r] \in DOMAIN fs

C17_SourceImageUnchanged ==
    [][\A r \in Req :
          HasSource(r) =>
              /\ image_path[r] \in DOMAIN fs'
              /\ fs'[image_path[r]] = fs[image_path[r]]
      ]_vars

(***************************************************************************)
(* C19.  No file is written by generate_progressive_images before all      *)
(* three stages have given their image: every write of an output file      *)
(* comes after the answer of stage 3, and a run that failed at stage 1, 2  *)
(* or 3 has written no file.                                               *)
(***************************************************************************)
\* The paths whose file is not the same after the step as before it.
Written == {p \in DOMAIN fs' : p \notin DOMAIN fs \/ fs'[p] # fs[p]}

\* The step stores the upload of a web request.
StoresUpload(p) == \E r \in Req : pc[r] = "request" /\ image_path'[r] = p

\* The step is a turn of r's save loop, all three stages having answered.
SavesAfterStage3(r, p) ==
    /\ pc[r] = "save"
    /\ p = SavePath(r, k[r] + 1)
    /\ Len(generated_images[r]) = 3
    /\ \A n \in 1..3 : Called(r, n) /\ StageCalls(r, n)[1].response_id # NoId

C19_NoFileBeforeStage3 ==
    [][/\ DOMAIN fs \subseteq DOMAIN fs'
       /\ \A p \in Written : StoresUpload(p) \/ \E r \in Req : SavesAfterStage3(r, p)
       /\ \A r \in Req : \A n \in 1..3 :
              FailedAtStage(r, n)' =>
                  /\ k'[r] = 0
                  /\ \A p \in DOMAIN fs' :
                         \/ p \in DOMAIN fs0' /\ fs'[p] = fs0'[p]
                         \/ caller'[r] = "web" /\ p = image_path'[r]
      ]_vars

\* A direct call failed at stage 3, two images in hand, the files as they were.
C19_Witness ==
    /\ FailedAtStage(1, 3)
    /\ caller[1] = "lib"
    /\ Len(generated_images[1]) = 2
    /\ fs = fs0

(***************************************************************************)
(* C16.  However the steps of two generate requests interleave, those of   *)
(* one user included, two transformations never write into the same output *)
(* directory at the same time: while one is between its first and its last *)
(* file write, no other writes files into the directory it was given.      *)
(***************************************************************************)
\* Request r's transformation has written a file and has more to write.
Writing(r) == pc[r] = "save" /\ 1 <= k[r] /\ k[r] < Len(generated_images[r])

C16_OneWriterPerDirectory ==
    \A r1 \in Req : \A r2 \in Req \ {r1} :
        (Writing(r1) /\ Writing(r2)) => output_dir[r1] # output_dir[r2]

(***************************************************************************)
(* C18.  The three paths of every committed GeneratedImage record hold the *)
(* images generated for that record, whatever requests came after it, and  *)
(* no two records have an image path in common.                            *)
(***************************************************************************)
\* The image paths of a record.
ImagePaths(rec) == {rec.image1_path, rec.image2_path, rec.image3_path}

\* The files of the record hold the images of the request that committed it.
HoldsOwnImages(rec) ==
    /\ rec.image1_path \in DOMAIN fs
    /\ rec.image2_path \in DOMAIN fs
    /\ rec.image3_path \in DOMAIN fs
    /\ fs[rec.image1_path] = B64Decode(generated_images[rec.req][1][2]).bytes
    /\ fs[rec.image2_path] = B64Decode(generated_images[rec.req][2][2]).bytes
    /\ fs[rec.image3_path] = B64Decode(generated_images[rec.req][3][2]).bytes

C18_RecordsKeepTheirImages ==
    /\ \A rec \in db : HoldsOwnImages(rec)
    /\ \A rec1 \in db : \A rec2 \in db \ {rec1} :
           ImagePaths(rec1) \cap ImagePaths(rec2) = {}

(***************************************************************************)
(* C20.  serve_image and serve_upload send a file only when the path asked *)
(* for has two segments or more, its first segment is a number equal to    *)
(* the id of the user logged in, and the file is one of that user's own    *)
(* directory; a path with another user's id, or without a number first,    *)
(* gets no file.                                                           *)
(***************************************************************************)
\* The files of user u that the route serves.
OwnFiles(route, u) ==
    IF route = "images"
    THEN {Join(Join("static/generated_images", ToString(u)), StageFile(n)) : n \in 1..3}
    ELSE {Join(Join("uploads", ToString(u)), StoredUpload)}

\* The number a segment is: 0 when it is none.
NumberOf(seg) == IF seg \in {"1", "01"} THEN 1 ELSE IF seg = "2" THEN 2 ELSE 0

C20_OnlyOwnFilesServed ==
    \A r \in Req :
        LET a == served[r]
        IN  /\ a.status = 200 =>
                   /\ Len(a.parts) >= 2
                   /\ NumberOf(a.parts[1]) = user[r]
                   /\ a.file \in OwnFiles(a.route, user[r])
                   /\ a.file \in DOMAIN fs
            /\ (a.status # 0 /\ (Len(a.parts) < 2 \/ NumberOf(a.parts[1]) # user[r])) =>
                   a.status # 200 /\ a.file = ""

\* User 1 is sent an own image for a path that winds through "x/..".
C20_Witness ==
    /\ user[1] = 1
    /\ served[1].status = 200
    /\ served[1].parts = <<"1", "x", "..", StageFile(1)>>
    /\ served[1].file = "static/generated_images/1/image1_transition.png"

(***************************************************************************)
(* C21.  Any two generate requests, two of one user posting a file of the  *)
(* same name included, store their uploads under different paths: a stored *)
(* upload, and the original_image_path of a committed record, keeps the    *)
(* bytes of its own request whatever uploads come later or at the same     *)
(* time.                                                                   *)
(***************************************************************************)
\* Request r has stored its upload.
Stored(r) == image_path[r] # ""

C21_UploadPathsDistinct ==
    /\ \A r1 \in Req : \A r2 \in Req \ {r1} :
           (Stored(r1) /\ Stored(r2)) => image_path[r1] # image_path[r2]
    /\ \A r \in Req :
           Stored(r) => /\ image_path[r] \in DOMAIN fs
                        /\ fs[image_path[r]] = upload[r].data
    /\ \A rec \in db :
           /\ rec.original_image_path \in DOMAIN fs
           /\ fs[rec.original_image_path] = upload[rec.req].data

=============================================================================
